---- MODULE Spec2Model ----
(***************************************************************************)
(* Model of examples/proofs/generate.py: the proof generation script that  *)
(* drives cairo-compile, cairo-run and cpu_air_prover over a fixed list of *)
(* layouts and patches stark.fri.fri_step_list of the prover parameters.   *)
(***************************************************************************)
EXTENDS Integers, Sequences, FiniteSets, TLC

(* ----------------------------- bounds ---------------------------------- *)

\* n_steps values tried on compute_fri_step_list: -2..MaxNSteps
\* (plus the named values of FriNSteps below).
MaxNSteps == 17
\* last_layer_degree_bound values tried: 0..MaxDegreeBound (plus FriBounds).
MaxDegreeBound == 9
\* n_steps values the runner may report in the pipeline: -1..MaxRunnerSteps
\* (plus 1024).
MaxRunnerSteps == 1

(* -------------------------------- state -------------------------------- *)

VARIABLES
    idx,          \* position of the main loop in LAYOUTS (1-based)
    pc,           \* position inside the main loop / process_layout
    dirs,         \* the scratch directories that exist
    fs,           \* the files that exist: path -> content
    n_steps,      \* local variable n_steps of process_layout
    exc,          \* the exception propagating out of process_layout
    log,          \* the ERROR log lines (by emitting function), per
                  \*   layout position
    results,      \* how process_layout ended, per layout position
    attempted,    \* the layouts process_layout was called with, in order
    trace,        \* the steps of the current layout and how each ended
    written,      \* every patched document dumped so far, with its n_steps
    exit_code,    \* exit status of the script, -1 while it runs
    f_pc,         \* compute_fri_step_list applied on its own: position,
    f_n_steps,    \*   argument n_steps,
    f_config,     \*   argument config,
    f_ret         \*   and result

pipeline_vars ==
    << idx, pc, dirs, fs, n_steps, exc, log, results, attempted, trace,
       written, exit_code >>
fri_vars == << f_pc, f_n_steps, f_config, f_ret >>
vars == << idx, pc, dirs, fs, n_steps, exc, log, results, attempted, trace,
           written, exit_code, f_pc, f_n_steps, f_config, f_ret >>

(* --------------------------- module constants -------------------------- *)

LAYOUTS ==
    << "dex", "recursive", "recursive_with_poseidon", "small", "starknet",
       "starknet_with_keccak" >>

NLayouts == Len(LAYOUTS)

CWD == << "." >>
LayoutDir(l) == << ".", l >>

PARAMETER_FILE == [dir |-> CWD, name |-> "cpu_air_params.json"]
PROVER_CONFIG_FILE == [dir |-> CWD, name |-> "cpu_air_prover_config.json"]
PROGRAM_INPUT_FILE == [dir |-> CWD, name |-> "fibonacci_input.json"]

(* ------------------------------ arithmetic ----------------------------- *)

\* The mathematical ceil(log2(x)) for x >= 1.
RECURSIVE ExactCeilLog2(_)
ExactCeilLog2(x) == IF x <= 1 THEN 0 ELSE 1 + ExactCeilLog2((x + 1) \div 2)

log_defined_always(x) == TRUE

\* math.log(x), and therefore math.log(x, 2), raises ValueError
\* ("math domain error") unless x > 0.
log_defined(x) == x > 0

\* The integers x below 2^31 for which the double quotient
\* math.log(x) / math.log(2) computed by math.log(x, 2) is not the exact
\* logarithm rounded to nearest but lies above an exact integer value:
\* math.log(2**29, 2) = 29.000000000000004.  (The next such powers, 2^31,
\* 2^39, 2^47, ... are beyond the integer range of the model.)
InexactLog2 == { 2^29 }

\* ceil(log(x, 2)) as the script evaluates it, in IEEE double arithmetic.
ceil_log2(x) ==
    IF x \in InexactLog2 THEN ExactCeilLog2(x) + 1 ELSE ExactCeilLog2(x)

\* Python's divmod for a positive divisor: floor quotient, remainder in
\* 0..b-1.  TLA+ \div and % have the same floor semantics.
divmod(a, b) == << a \div b, a % b >>

\* [v] * q : the empty list when q <= 0.
Repeat(v, q) == IF q <= 0 THEN << >> ELSE [i \in 1..q |-> v]

n_steps_log(n) == ceil_log2(n)

last_layer_degree_bound_log(config) ==
    ceil_log2(config.stark.fri.last_layer_degree_bound)

sigma_fri_step_list(n, config) ==
    n_steps_log(n) + 4 - last_layer_degree_bound_log(config)

fri_step_list_value(sigma) ==
    LET qr == divmod(sigma, 4)
        q == qr[1]
        r == qr[2]
    IN  << 0 >> \o Repeat(4, q) \o (IF r > 0 THEN << r >> ELSE << >>)

\* compute_fri_step_list: the returned list, or the exception raised.
compute_fri_step_list(n, config) ==
    IF ~log_defined(n)
    THEN [exc |-> "ValueError", value |-> << >>]
    ELSE IF ~log_defined(config.stark.fri.last_layer_degree_bound)
    THEN [exc |-> "ValueError", value |-> << >>]
    ELSE [exc |-> "none",
          value |-> fri_step_list_value(sigma_fri_step_list(n, config))]

(* ------------------------------ documents ------------------------------ *)

\* A parameter configuration as found in cpu_air_params.json.
Config(bound) ==
    [field |-> "PrimeField0",
     stark |-> [fri |-> [fri_step_list |-> << 0, 4, 4, 3 >>,
                         last_layer_degree_bound |-> bound,
                         n_queries |-> 10,
                         proof_of_work_bits |-> 30],
                log_n_cosets |-> 2]]

Json(value) == [kind |-> "json", value |-> value]
Garbage == [kind |-> "garbage", value |-> << >>]
Binary == [kind |-> "binary", value |-> << >>]
Absent == [kind |-> "absent", value |-> << >>]

(* ----------------------------- file system ----------------------------- *)

WriteFile(files, path, content) ==
    [p \in DOMAIN files \cup {path} |-> IF p = path THEN content ELSE files[p]]

RemoveTree(files, dir) ==
    [p \in {q \in DOMAIN files : q.dir # dir} |-> files[p]]

\* open(path) followed by json.load.
json_load(files, path) ==
    IF path \notin DOMAIN files
    THEN [exc |-> "FileNotFoundError", value |-> << >>]
    ELSE IF files[path].kind # "json"
    THEN [exc |-> "JSONDecodeError", value |-> << >>]
    ELSE [exc |-> "none", value |-> files[path].value]

\* os.path.join(tmpdir, name)
Join(dir, name) == [dir |-> dir, name |-> name]

extract_steps(files, public_input_file) ==
    LET loaded == json_load(files, public_input_file)
    IN  IF loaded.exc # "none"
        THEN [exc |-> loaded.exc, value |-> 0]
        ELSE [exc |-> "none",
              value |-> IF "n_steps" \in DOMAIN loaded.value
                        THEN loaded.value.n_steps
                        ELSE 0]

updated_file_path_in_place(parameter_file_path, tmpdir) ==
    parameter_file_path

updated_file_path(parameter_file_path, tmpdir) ==
    Join(tmpdir, "updated_cpu_air_params.json")

patched_config_per_layout(config, fri_step_list) ==
    [config EXCEPT !.stark.fri.fri_step_list = fri_step_list,
                   !.field = LAYOUTS[idx]]

\* The document update_parameter_file dumps: the loaded configuration with
\* stark.fri.fri_step_list replaced.
patched_config(config, fri_step_list) ==
    [config EXCEPT !.stark.fri.fri_step_list = fri_step_list]

\* update_parameter_file: the exception raised (if any), the file system
\* afterwards and the returned path.
update_parameter_file(files, parameter_file_path, tmpdir, n) ==
    LET loaded == json_load(files, parameter_file_path)
        updated_file == updated_file_path(parameter_file_path, tmpdir)
    IN  IF loaded.exc # "none"
        THEN [exc |-> loaded.exc, files |-> files, path |-> updated_file]
        ELSE LET computed == compute_fri_step_list(n, loaded.value)
             IN  IF computed.exc # "none"
                 THEN [exc |-> computed.exc, files |-> files,
                       path |-> updated_file]
                 ELSE [exc |-> "none",
                       files |-> WriteFile(files, updated_file,
                                    Json(patched_config(loaded.value,
                                                        computed.value))),
                       path |-> updated_file]

(* ------------------------------ exceptions ----------------------------- *)

\* subprocess.run(command, check=True) inside run_command, by what the
\* external command does: exit 0, a non-zero exit (CalledProcessError,
\* logged by run_command and re-raised), or the executable cannot be
\* started (OSError, not handled by run_command).
CommandOutcomes == { "exit0", "nonzero", "oserror" }

run_command_swallows(outcome) ==
    IF outcome = "oserror" THEN "FileNotFoundError" ELSE "none"

run_command_raises(outcome) ==
    CASE outcome = "exit0" -> "none"
      [] outcome = "nonzero" -> "CalledProcessError"
      [] OTHER -> "FileNotFoundError"

\* The logging.error lines run_command emits for an outcome.
run_command_log(outcome) ==
    IF outcome = "nonzero"
    THEN << "run_command" >>
    ELSE << >>

main_log_silent(e) == << >>

\* The main loop's except clause: the error line it logs for exception e.
main_log(e) == << "main" >>

next_layout_break(i, e) == IF e = "none" THEN i + 1 ELSE NLayouts + 1

\* The main loop after a layout: `continue` in the except clause and the
\* normal end of the loop body both move on to the next layout.
next_layout(i, e) == i + 1

cleanup_dirs_on_success(ds, dir, e) == IF e = "none" THEN ds \ {dir} ELSE ds

\* TemporaryDirectory.__exit__: the directory is removed however the with
\* block is left.
cleanup_dirs(ds, dir, e) == ds \ {dir}

(* ------------------------- the current layout -------------------------- *)

layout == LAYOUTS[idx]
tmpdir == << "tmp", layout >>

compiled_output == Join(tmpdir, "fibonacci_compiled.json")
trace_file == Join(tmpdir, "fibonacci_trace.bin")
memory_file == Join(tmpdir, "fibonacci_memory.bin")
public_input_file == Join(tmpdir, "fibonacci_public_input.json")
private_input_file == Join(tmpdir, "fibonacci_private_input.json")
updated_parameter_file == updated_file_path(PARAMETER_FILE, tmpdir)
proof_output ==
    Join(LayoutDir(layout), "cairo0_stone6_keccak_160_lsb_example_proof.json")

StepOrder ==
    << "cairo-compile", "cairo-run", "extract_steps", "update_parameter_file",
       "cpu_air_prover" >>

(* ------------------------------- inputs -------------------------------- *)

\* last_layer_degree_bound of the baseline cpu_air_params.json.
BaselineBounds == { 0, 4, 64 }

\* n_steps values cairo-run may report.
RunnerNSteps == (-1..MaxRunnerSteps) \cup { 1024 }

\* What cairo-run may leave at public_input_file after exit 0: a JSON
\* object with n_steps, a JSON object without it, or something that is not
\* JSON; Absent stands for the file not being there.
PublicInputs ==
    { Json([n_steps |-> n, layout |-> "l"]) : n \in RunnerNSteps }
        \cup { Json([layout |-> "l"]), Garbage, Absent }

FriNSteps == ((-2)..MaxNSteps) \cup { 100, 1024, 2^29 }
FriBounds == (0..MaxDegreeBound) \cup { 64, 2^29 }

NoResult == [exc |-> "pending", value |-> << >>]

\* The record of dumped documents after a dump of doc for n.
Dumped(w, n, doc) == w \cup { [n_steps |-> n, doc |-> doc] }

(* --------------------------------- Init -------------------------------- *)

InitFiles(bound) ==
    WriteFile(WriteFile(WriteFile(<< >>, PARAMETER_FILE, Json(Config(bound))),
                        PROVER_CONFIG_FILE, Json(<< >>)),
              PROGRAM_INPUT_FILE, Json(<< >>))

InitPipeline(bound) ==
    /\ idx = 1
    /\ pc = "loop"
    /\ dirs = {}
    /\ fs = InitFiles(bound)
    /\ n_steps = 0
    /\ exc = "none"
    /\ log = [i \in 1..NLayouts |-> << >>]
    /\ results = [i \in 1..NLayouts |-> "pending"]
    /\ attempted = << >>
    /\ trace = << >>
    /\ written = {}
    /\ exit_code = -1

Init ==
    /\ \E bound \in BaselineBounds : InitPipeline(bound)
    /\ f_pc = "idle"
    /\ f_n_steps = 1
    /\ f_config = Config(1)
    /\ f_ret = NoResult

(* ------------------------------- actions ------------------------------- *)

\* One entry of trace: the step, the exit of its external command ("n/a" for
\* the steps that run none) and the exception it raised.
Step(name, exit, e) == [step |-> name, exit |-> exit, exc |-> e]

\* for layout in LAYOUTS: process_layout(layout) enters the with block.
StartLayout ==
    /\ pc = "loop"
    /\ idx <= NLayouts
    /\ attempted' = Append(attempted, layout)
    /\ dirs' = dirs \cup {tmpdir}
    /\ trace' = << >>
    /\ pc' = "compile"
    /\ UNCHANGED << idx, fs, n_steps, exc, log, results, written, exit_code >>

\* run_command(["cairo-compile", ...])
CairoCompile ==
    /\ pc = "compile"
    /\ \E outcome \in CommandOutcomes :
          LET e == run_command_raises(outcome)
          IN  /\ trace' = Append(trace, Step("cairo-compile", outcome, e))
              /\ log' = [log EXCEPT ![idx] = @ \o run_command_log(outcome)]
              /\ exc' = e
              /\ fs' = IF outcome = "exit0"
                       THEN WriteFile(fs, compiled_output, Json(<< >>))
                       ELSE fs
              /\ pc' = IF e = "none" THEN "run" ELSE "unwind"
    /\ UNCHANGED << idx, dirs, n_steps, results, attempted, written, exit_code >>

\* The files cairo-run leaves after exit 0.
RunnerFiles(files, public) ==
    LET f1 == WriteFile(files, trace_file, Binary)
        f2 == WriteFile(f1, memory_file, Binary)
        f3 == WriteFile(f2, private_input_file, Json(<< >>))
    IN  IF public.kind = "absent" THEN f3
        ELSE WriteFile(f3, public_input_file, public)

\* run_command(cairo_run_command)
CairoRun ==
    /\ pc = "run"
    /\ \E outcome \in CommandOutcomes :
          LET e == run_command_raises(outcome)
          IN  /\ trace' = Append(trace, Step("cairo-run", outcome, e))
              /\ log' = [log EXCEPT ![idx] = @ \o run_command_log(outcome)]
              /\ exc' = e
              /\ IF outcome = "exit0"
                 THEN \E public \in PublicInputs :
                         fs' = RunnerFiles(fs, public)
                 ELSE fs' = fs
              /\ pc' = IF e = "none" THEN "extract" ELSE "unwind"
    /\ UNCHANGED << idx, dirs, n_steps, results, attempted, written, exit_code >>

\* n_steps = extract_steps(public_input_file)
ExtractSteps ==
    /\ pc = "extract"
    /\ LET r == extract_steps(fs, public_input_file)
       IN  /\ trace' = Append(trace, Step("extract_steps", "n/a", r.exc))
           /\ exc' = r.exc
           /\ n_steps' = IF r.exc = "none" THEN r.value ELSE n_steps
           /\ pc' = IF r.exc = "none" THEN "update" ELSE "unwind"
    /\ UNCHANGED << idx, dirs, fs, log, results, attempted, written, exit_code >>

\* updated_parameter_file = update_parameter_file(PARAMETER_FILE, tmpdir,
\*                                                n_steps)
UpdateParameterFile ==
    /\ pc = "update"
    /\ LET r == update_parameter_file(fs, PARAMETER_FILE, tmpdir, n_steps)
       IN  /\ trace' = Append(trace, Step("update_parameter_file", "n/a", r.exc))
           /\ exc' = r.exc
           /\ fs' = r.files
           /\ written' = IF r.exc = "none"
                         THEN Dumped(written, n_steps,
                                     r.files[r.path].value)
                         ELSE written
           /\ pc' = IF r.exc = "none" THEN "prove" ELSE "unwind"
    /\ UNCHANGED << idx, dirs, n_steps, log, results, attempted, exit_code >>

\* run_command(["cpu_air_prover", ...]); afterwards the with block is left
\* either way.
Prove ==
    /\ pc = "prove"
    /\ \E outcome \in CommandOutcomes :
          LET e == run_command_raises(outcome)
          IN  /\ trace' = Append(trace, Step("cpu_air_prover", outcome, e))
              /\ log' = [log EXCEPT ![idx] = @ \o run_command_log(outcome)]
              /\ exc' = e
              /\ fs' = IF outcome = "exit0"
                       THEN WriteFile(fs, proof_output, Json(<< >>))
                       ELSE fs
    /\ pc' = "unwind"
    /\ UNCHANGED << idx, dirs, n_steps, results, attempted, written, exit_code >>

\* Leaving the with block (TemporaryDirectory.__exit__) and, when an
\* exception is propagating, the except clause of the main loop.
Unwind ==
    /\ pc = "unwind"
    /\ dirs' = cleanup_dirs(dirs, tmpdir, exc)
    /\ fs' = IF tmpdir \in dirs' THEN fs ELSE RemoveTree(fs, tmpdir)
    /\ log' = IF exc = "none" THEN log
              ELSE [log EXCEPT ![idx] = @ \o main_log(exc)]
    /\ results' = [results EXCEPT ![idx] = IF exc = "none" THEN "ok"
                                            ELSE "failed"]
    /\ idx' = next_layout(idx, exc)
    /\ exc' = "none"
    /\ n_steps' = 0
    /\ trace' = << >>
    /\ pc' = "loop"
    /\ UNCHANGED << attempted, written, exit_code >>

\* logging.info("Process completed for all layouts.") and the end of the
\* script.
Finish ==
    /\ pc = "loop"
    /\ idx > NLayouts
    /\ pc' = "done"
    /\ exit_code' = 0
    /\ UNCHANGED << idx, dirs, fs, n_steps, exc, log, results, attempted,
                    trace, written >>

Next ==
    \/ (StartLayout /\ UNCHANGED fri_vars)
    \/ (CairoCompile /\ UNCHANGED fri_vars)
    \/ (CairoRun /\ UNCHANGED fri_vars)
    \/ (ExtractSteps /\ UNCHANGED fri_vars)
    \/ (UpdateParameterFile /\ UNCHANGED fri_vars)
    \/ (Prove /\ UNCHANGED fri_vars)
    \/ (Unwind /\ UNCHANGED fri_vars)
    \/ (Finish /\ UNCHANGED fri_vars)

Spec == Init /\ [][Next]_vars

\* The script is sequential and every step returns once the external
\* command it waits for returns.
FairSpec == Spec /\ WF_vars(Next)

(* ------------- compute_fri_step_list applied on its own ---------------- *)

FriInit ==
    /\ InitPipeline(4)
    /\ f_pc = "call"
    /\ f_n_steps \in FriNSteps
    /\ f_config \in { Config(bound) : bound \in FriBounds }
    /\ f_ret = NoResult

FriCall ==
    /\ f_pc = "call"
    /\ f_ret' = compute_fri_step_list(f_n_steps, f_config)
    /\ f_pc' = "returned"
    /\ UNCHANGED << f_n_steps, f_config >>
    /\ UNCHANGED pipeline_vars

FriNext == FriCall

FriSpec == FriInit /\ [][FriNext]_vars

TypeOK ==
    /\ idx \in 1..(NLayouts + 1)
    /\ pc \in { "loop", "compile", "run", "extract", "update", "prove",
                "unwind", "done" }
    /\ exit_code \in { -1, 0 }


(* ------------------------------ properties ----------------------------- *)

RECURSIVE Sum(_)
Sum(seq) == IF seq = << >> THEN 0 ELSE Head(seq) + Sum(Tail(seq))

f_bound == f_config.stark.fri.last_layer_degree_bound

\* total of the contract: ceil(log2(n_steps)) + 4 - ceil(log2(bound)), with
\* the exact logarithms.
ContractTotal(n, bound) == ExactCeilLog2(n) + 4 - ExactCeilLog2(bound)

\* [0], q fours, then [r] only if r > 0, for (q, r) = divmod(total, 4).
ContractList(total) ==
    << 0 >> \o Repeat(4, total \div 4)
            \o (IF total % 4 > 0 THEN << total % 4 >> ELSE << >>)

Returned(n, bound) ==
    /\ f_pc = "returned"
    /\ f_n_steps = n
    /\ f_bound = bound

\* C1: for positive n_steps and last_layer_degree_bound,
\* compute_fri_step_list returns [0], then q fours, then [r] only if r > 0,
\* where (q, r) = divmod(ceil(log2(n_steps)) + 4 - ceil(log2(bound)), 4);
\* (1024, 4) gives [0,4,4,4], (100, 2) gives [0,4,4,2], (16, 64) gives [0,2].
C1_StepListFollowsContract ==
    /\ (f_pc = "returned" /\ f_n_steps >= 1 /\ f_bound >= 1)
          => /\ f_ret.exc = "none"
             /\ f_ret.value = ContractList(ContractTotal(f_n_steps, f_bound))
    /\ Returned(1024, 4) => f_ret.value = << 0, 4, 4, 4 >>
    /\ Returned(100, 2) => f_ret.value = << 0, 4, 4, 2 >>
    /\ Returned(16, 64) => f_ret.value = << 0, 2 >>

\* C2: for positive n_steps and last_layer_degree_bound with
\* ceil(log2(n_steps)) + 4 - ceil(log2(bound)) >= 0, the elements of the
\* returned list beyond the leading 0 sum to that total, and each of them
\* except possibly the last is 4.
C2_SumIsTotalAndFours ==
    (/\ f_pc = "returned"
     /\ f_n_steps >= 1
     /\ f_bound >= 1
     /\ ContractTotal(f_n_steps, f_bound) >= 0)
        => /\ f_ret.exc = "none"
           /\ Len(f_ret.value) >= 1
           /\ f_ret.value[1] = 0
           /\ Sum(Tail(f_ret.value)) = ContractTotal(f_n_steps, f_bound)
           /\ \A i \in 2..(Len(f_ret.value) - 1) : f_ret.value[i] = 4

\* C10: for positive n_steps and last_layer_degree_bound with a negative
\* total, compute_fri_step_list does not fail and returns [0] when
\* r = total mod 4 is 0 and [0, r] otherwise: the list starts with 0, holds
\* only integers in 0..4, and the sum beyond the leading 0 is not total.
C10_NegativeTotal ==
    (/\ f_pc = "returned"
     /\ f_n_steps >= 1
     /\ f_bound >= 1
     /\ ContractTotal(f_n_steps, f_bound) < 0)
        => LET total == ContractTotal(f_n_steps, f_bound)
               r == total % 4
           IN  /\ f_ret.exc = "none"
               /\ f_ret.value = IF r = 0 THEN << 0 >> ELSE << 0, r >>
               /\ f_ret.value[1] = 0
               /\ \A i \in 1..Len(f_ret.value) : f_ret.value[i] \in 0..4
               /\ Sum(Tail(f_ret.value)) # total

UpdateStepDone == Len(trace) >= 4

\* C3: for n_steps <= 0 (also the 0 extract_steps returns for a public input
\* without n_steps) compute_fri_step_list raises, and update_parameter_file
\* writes no patched configuration for it: no document is ever dumped for a
\* non-positive n_steps and the prover step is never reached with one.
C3_NonPositiveStepsRaise ==
    /\ \A w \in written : w.n_steps > 0
    /\ (UpdateStepDone /\ n_steps <= 0)
          => /\ trace[4].exc = "ValueError"
             /\ exc = "ValueError"
             /\ pc = "unwind"
             /\ updated_parameter_file \notin DOMAIN fs
    /\ (pc = "update" /\ "n_steps" \notin DOMAIN fs[public_input_file].value)
          => n_steps = 0
    /\ pc = "prove" => n_steps > 0

C3_Witness ==
    /\ pc = "unwind"
    /\ UpdateStepDone
    /\ "n_steps" \notin DOMAIN fs[public_input_file].value
    /\ n_steps = 0
    /\ exc = "ValueError"
    /\ fs[PARAMETER_FILE].value.stark.fri.last_layer_degree_bound > 0

\* C4: every failure of a layout is caught by the main loop and logged
\* there, and the loop goes on: the layouts attempted so far are always a
\* prefix of LAYOUTS, one attempt per loop position, and all six have been
\* attempted, in list order, when the script ends.
C4_FailuresDoNotAbort ==
    /\ attempted = SubSeq(LAYOUTS, 1, Len(attempted))
    /\ Len(attempted) = IF pc \in { "loop", "done" } THEN idx - 1 ELSE idx
    /\ pc = "done" => attempted = LAYOUTS
    /\ \A i \in 1..NLayouts :
          results[i] = "failed"
             => /\ i < idx
                /\ Len(log[i]) >= 1
                /\ log[i][Len(log[i])] = "main"

C4_Witness ==
    /\ pc = "done"
    /\ attempted = LAYOUTS
    /\ results[1] = "failed"
    /\ results[2] = "failed"
    /\ results[NLayouts] = "ok"

ProverInvoked == Len(trace) = 5

\* C5: the steps of a layout run in the order compiler, runner, step
\* extraction, parameter patching, prover; a step runs only if all steps
\* before it succeeded (external commands with exit 0); the prover is only
\* invoked with the patched configuration of this layout's n_steps on disk.
C5_StepOrder ==
    /\ Len(trace) <= Len(StepOrder)
    /\ \A i \in 1..Len(trace) : trace[i].step = StepOrder[i]
    /\ \A i \in 1..(Len(trace) - 1) :
          /\ trace[i].exc = "none"
          /\ trace[i].exit \in { "exit0", "n/a" }
    /\ \A i \in 1..Len(trace) :
          (trace[i].exc # "none" \/ trace[i].exit \in { "nonzero", "oserror" })
             => (i = Len(trace) /\ pc = "unwind" /\ exc # "none")
    /\ (pc = "prove" \/ ProverInvoked)
          => /\ trace[1].exit = "exit0"
             /\ trace[2].exit = "exit0"
             /\ compiled_output \in DOMAIN fs
             /\ extract_steps(fs, public_input_file)
                   = [exc |-> "none", value |-> n_steps]
             /\ updated_parameter_file \in DOMAIN fs
             /\ fs[updated_parameter_file].value.stark.fri.fri_step_list
                   = compute_fri_step_list(n_steps,
                                           fs[PARAMETER_FILE].value).value

C5_Witness ==
    /\ pc = "unwind"
    /\ ProverInvoked
    /\ trace[5].exit = "exit0"
    /\ idx = 2
    /\ results[1] = "failed"

\* C6: at most one scratch directory exists at any time; while a layout is
\* processed it is that layout's own; between two layouts and at the end
\* none exists and no file of one is left, also after a failed layout.
C6_ScratchDirectoryScoped ==
    /\ Cardinality(dirs) <= 1
    /\ pc \in { "loop", "done" }
          => /\ dirs = {}
             /\ \A p \in DOMAIN fs : p.dir[1] # "tmp"
    /\ pc \notin { "loop", "done" } => dirs = { tmpdir }

C6_Witness ==
    /\ pc = "loop"
    /\ idx = 3
    /\ results[1] = "failed"
    /\ results[2] = "ok"
    /\ dirs = {}

SameExceptStepList(a, b) ==
    [a EXCEPT !.stark.fri.fri_step_list = << >>]
        = [b EXCEPT !.stark.fri.fri_step_list = << >>]

\* C7: no step changes the baseline cpu_air_params.json, and a patched
\* configuration, when it is written, equals the baseline in every field
\* but stark.fri.fri_step_list ([0,4,4,4] for n_steps = 1024 and a
\* last_layer_degree_bound of 4).
C7_OnlyStepListPatched ==
    [][ /\ PARAMETER_FILE \in DOMAIN fs'
        /\ fs'[PARAMETER_FILE] = fs[PARAMETER_FILE]
        /\ \A p \in DOMAIN fs' :
              (p.name = "updated_cpu_air_params.json" /\ p \notin DOMAIN fs)
                 => /\ fs'[p].kind = "json"
                    /\ SameExceptStepList(fs'[p].value,
                                          fs[PARAMETER_FILE].value)
                    /\ (/\ n_steps = 1024
                        /\ fs[PARAMETER_FILE].value.stark.fri
                              .last_layer_degree_bound = 4)
                          => fs'[p].value.stark.fri.fri_step_list
                                = << 0, 4, 4, 4 >>
      ]_vars

C7_Witness ==
    /\ pc = "prove"
    /\ idx = 3
    /\ n_steps = 1024
    /\ updated_parameter_file \in DOMAIN fs
    /\ fs[updated_parameter_file].value.stark.fri.fri_step_list
          = << 0, 4, 4, 4 >>
    /\ fs[updated_parameter_file].value # fs[PARAMETER_FILE].value

\* C8 as stated: at the end the exit status is 0 and the log holds exactly
\* one error line for each failed layout.
C8_OneErrorLinePerFailure ==
    pc = "done"
       => /\ exit_code = 0
          /\ \A i \in 1..NLayouts :
                Len(log[i]) = IF results[i] = "failed" THEN 1 ELSE 0

\* C8, amended: the script always reaches the final step and ends with exit
\* status 0 whatever failed; each failed layout has exactly one error line
\* of the main loop, preceded by one error line of run_command exactly when
\* the failure was a non-zero exit of an external command; a layout that
\* succeeded has none.
C8_CompletesWithErrorLines ==
    /\ <>(pc = "done")
    /\ [](pc = "done"
            => /\ exit_code = 0
               /\ \A i \in 1..NLayouts :
                     /\ results[i] \in { "ok", "failed" }
                     /\ results[i] = "ok" => log[i] = << >>
                     /\ results[i] = "failed"
                           => log[i] \in { << "main" >>,
                                           << "run_command", "main" >> })
    /\ [](pc = "unwind"
            => (log[idx] = << "run_command" >>
                   <=> exc = "CalledProcessError"))
    /\ [](pc # "done" => exit_code = -1)

C8_Witness ==
    /\ pc = "done"
    /\ exit_code = 0
    /\ log[1] = << "run_command", "main" >>
    /\ log[2] = << "main" >>
    /\ log[3] = << >>
    /\ results[3] = "ok"

\* C9: two dumps of the patched document for the same n_steps are identical,
\* whichever layouts they were made for and whatever happened in between.
C9_PatcherIsFunction ==
    \A a \in written : \A b \in written :
        a.n_steps = b.n_steps => a.doc = b.doc

\* Layouts 1 and 3 both got as far as the prover, so each dumped a document,
\* and layout 4 has just dumped one for the n_steps of one of them.
C9_Witness ==
    /\ pc = "prove"
    /\ idx = 4
    /\ results[1] = "ok"
    /\ results[2] = "failed"
    /\ results[3] = "ok"
    /\ Cardinality(written) = 2
    /\ \E r \in written : r.n_steps = 1024

====
